---------------------------- MODULE Spec2Model ----------------------------
(***************************************************************************)
(* Model of build.rs of rust-intel-mkl (linux-64 table): the integrity     *)
(* gate check_files, the fetcher download, the selective extractor extract *)
(* and the driver main, run any number of times against one cache          *)
(* directory (OUT_DIR).                                                    *)
(*                                                                         *)
(* A path is a sequence of components, a file's content is a string that   *)
(* names its bytes, and the cache directory is a function from paths to    *)
(* contents, with Absent for a path that does not exist.                   *)
(***************************************************************************)
EXTENDS Naturals, Sequences, FiniteSets

VARIABLES
    fs,       \* the cache directory OUT_DIR: path -> content or Absent
    pc,       \* position of main: idle, download, extract, remove, recheck, emit, done, aborted
    last,     \* how the run before the current one ended: none, done or aborted
    log,      \* calls made by the current run, in order
    out,      \* lines the current run printed on stdout
    fs0,      \* the cache directory as the current run found it
    tar,      \* pure-function harness: the entries of the archive handed to extract
    res       \* pure-function harness: what the last call returned

vars == <<fs, pc, last, log, out, fs0, tar, res>>

-----------------------------------------------------------------------------
(* Bounds of the model *)

MaxEntries == 3

-----------------------------------------------------------------------------
(* mod mkl (target_os = "linux") *)

LIB_PATH == <<"lib">>

DLS == << [archive |-> <<"mkl-static-2020.4-intel_304.tar.bz2">>,
           uri     |-> "https://conda.anaconda.org/intel/linux-64/mkl-static-2020.4-intel_304.tar.bz2",
           md5     |-> "9f589a1508fb083c3e73427db459ca4c"] >>

FILES == << [file |-> <<"lib", "libmkl_intel_lp64.a">>, md5 |-> "1e47f89c23e9739c5ecc2275fc285b0f"],
            [file |-> <<"lib", "libmkl_sequential.a">>, md5 |-> "344f7ca7314ff45455e606f7b2ca3723"],
            [file |-> <<"lib", "libmkl_core.a">>,       md5 |-> "5c51b31094346d67725fc412dffd1ccb"] >>

-----------------------------------------------------------------------------
(* The file system and the network, as far as build.rs sees them *)

Absent == "<absent>"

ARCHIVE == DLS[1].archive

\* Byte contents a library file may hold.  "lp64", "seq" and "core" are the
\* genuine libraries; "alt" is altered content; "coll" is content that differs
\* from the genuine lp64 library and has the same MD5 digest.
Contents == {"lp64", "seq", "core", "alt", "coll"}

\* Paths an archive entry may carry.
EntryPaths == { FILES[1].file, FILES[2].file, FILES[3].file,
                <<"pkg", "lib", "libmkl_core.a">>,
                <<"include", "libmkl_core.a">>,
                <<"info", "index.json">> }

FsPaths == EntryPaths \cup {ARCHIVE}

\* A file of the cache directory that is none of this program's.
OtherFile == <<"info", "index.json">>

\* The files something other than this program may change between two runs.
TamperPaths == { FILES[1].file, FILES[2].file, FILES[3].file, OtherFile }

\* Bodies a server may send with status 200, by name; ArchiveEntries decodes
\* the ones that are compressed tar streams.
ArchiveIds == {"tar-genuine", "tar-extra", "tar-prefixed", "tar-corrupt", "tar-short"}

ArchiveEntries(body) ==
    CASE body = "tar-genuine"  -> << [path |-> <<"info", "index.json">>, data |-> "alt"],
                                    [path |-> FILES[3].file, data |-> "core"],
                                    [path |-> FILES[1].file, data |-> "lp64"],
                                    [path |-> FILES[2].file, data |-> "seq"] >>
      [] body = "tar-extra"    -> << [path |-> FILES[1].file, data |-> "coll"],
                                    [path |-> <<"include", "libmkl_core.a">>, data |-> "alt"],
                                    [path |-> FILES[2].file, data |-> "seq"],
                                    [path |-> FILES[3].file, data |-> "core"] >>
      [] body = "tar-prefixed" -> << [path |-> FILES[1].file, data |-> "lp64"],
                                    [path |-> FILES[2].file, data |-> "seq"],
                                    [path |-> <<"pkg", "lib", "libmkl_core.a">>, data |-> "core"],
                                    [path |-> FILES[3].file, data |-> "core"] >>
      [] body = "tar-corrupt"  -> << [path |-> FILES[1].file, data |-> "lp64"],
                                    [path |-> FILES[2].file, data |-> "alt"],
                                    [path |-> FILES[3].file, data |-> "core"] >>
      [] body = "tar-short"    -> << [path |-> FILES[1].file, data |-> "lp64"],
                                    [path |-> FILES[3].file, data |-> "core"] >>

\* What the archive file may hold: a body sent with status 200 (an archive, or
\* "html", which is no compressed tar stream), the body of an error response,
\* or the part of a body received before the transfer failed.
Bodies200 == ArchiveIds \cup {"html"}
ArchiveFileContents == Bodies200 \cup {"errorpage", "truncated"}

Statuses == {200, 302, 404}

EmptyDir == [p \in FsPaths |-> Absent]

-----------------------------------------------------------------------------
(* Pure functions of build.rs *)

\* calc_md5: the lowercase hex MD5 digest of the file's bytes.
calc_md5(content) ==
    CASE content = "lp64" -> "1e47f89c23e9739c5ecc2275fc285b0f"
      [] content = "coll" -> "1e47f89c23e9739c5ecc2275fc285b0f"
      [] content = "seq"  -> "344f7ca7314ff45455e606f7b2ca3723"
      [] content = "core" -> "5c51b31094346d67725fc412dffd1ccb"
      [] content = "alt"  -> "d41d8cd98f00b204e9800998ecf8427e"

\* Path::exists for out_dir.join(file)
exists(dir, file) == dir[file] # Absent

\* ends_with gone wrong: only the file names are compared.
ends_with_file_name(path, child) ==
    /\ Len(child) <= Len(path)
    /\ path[Len(path)] = child[Len(child)]

\* Path::ends_with: the whole components of child are the last ones of path.
ends_with(path, child) ==
    /\ Len(child) <= Len(path)
    /\ \A i \in 1..Len(child) : path[Len(path) - Len(child) + i] = child[i]

CheckOk == [ok |-> TRUE, path |-> <<>>, actual |-> "", expected |-> "", hashed |-> <<>>]

\* check_files, from member i on; hashed lists the files calc_md5 was called on.
RECURSIVE check_from(_, _, _)
check_from(dir, i, hashed) ==
    IF i > Len(FILES) THEN [CheckOk EXCEPT !.hashed = hashed]
    ELSE LET file == FILES[i].file
             md5  == FILES[i].md5
         IN  IF ~exists(dir, file)
             THEN [ok |-> FALSE, path |-> file, actual |-> "<unknown>",
                   expected |-> md5, hashed |-> hashed]
             ELSE LET file_md5 == calc_md5(dir[file])
                  IN  IF file_md5 # md5
                      THEN [ok |-> FALSE, path |-> file, actual |-> file_md5,
                            expected |-> md5, hashed |-> Append(hashed, file)]
                      ELSE check_from(dir, i + 1, Append(hashed, file))

\* check_files gone wrong: the loop starts at the second member.
check_files_skip_first(dir) == check_from(dir, 2, <<>>)

\* check_files gone wrong: the Err carries the expected checksum twice.
check_files_expected_twice(dir) ==
    LET r == check_from(dir, 1, <<>>)
    IN  IF r.ok THEN r ELSE [r EXCEPT !.actual = r.expected]

check_files(dir) == check_from(dir, 1, <<>>)

\* The test of extract's inner loop: some member of FILES that e_path ends with.
allow_listed(e_path) == \E i \in 1..Len(FILES) : ends_with(e_path, FILES[i].file)

\* Entry::unpack_in: the entry's data, at the entry's own path under the directory.
unpack_in(dir, e) == [dir EXCEPT ![e.path] = e.data]

\* extract's loop over the first n entries: the directory it leaves, and the
\* indices of the entries it unpacked.
RECURSIVE extract_upto(_, _, _)
extract_upto(entries, dir, n) ==
    IF n = 0 THEN [dir |-> dir, unpacked |-> <<>>]
    ELSE LET before == extract_upto(entries, dir, n - 1)
             e    == entries[n]
         IN  IF allow_listed(e.path)
             THEN [dir |-> unpack_in(before.dir, e), unpacked |-> Append(before.unpacked, n)]
             ELSE before

extract(entries, dir) == extract_upto(entries, dir, Len(entries))

\* remove_file gone wrong: the file stays.
remove_file_kept(dir, path) == dir

\* std::fs::remove_file
remove_file(dir, path) == [dir EXCEPT ![path] = Absent]

\* The test gone wrong: no status is refused.
response_ok_unchecked(response_code) == TRUE

\* The test gone wrong: only client and server errors are refused.
response_ok_below_400(response_code) == response_code < 400

\* download's test of the response code
response_ok(response_code) == response_code = 200

\* The branch gone wrong: the files in the cache are never used.
gate_next_always_download(r) == "download"

\* The branch gone wrong: the archive file in the cache is extracted as it is.
gate_next_reuse_archive(r) == IF r.ok THEN "emit" ELSE "extract"

\* main: where it goes after the first check_files
gate_next(r) == IF r.ok THEN "emit" ELSE "download"

\* The branch gone wrong: the result of the second check_files is dropped.
recheck_next_ignored(r) == "emit"

\* main: where it goes after the second check_files
recheck_next(r) == IF r.ok THEN "emit" ELSE "aborted"

\* The lines gone wrong: the core library comes first.
directives_core_first == << "cargo:rustc-link-search=$OUT_DIR/lib",
                            "cargo:rustc-link-lib=static=mkl_core",
                            "cargo:rustc-link-lib=static=mkl_intel_lp64",
                            "cargo:rustc-link-lib=static=mkl_sequential" >>

\* main: the lines it prints last
directives == << "cargo:rustc-link-search=$OUT_DIR/lib",
                 "cargo:rustc-link-lib=static=mkl_intel_lp64",
                 "cargo:rustc-link-lib=static=mkl_sequential",
                 "cargo:rustc-link-lib=static=mkl_core" >>

-----------------------------------------------------------------------------
(* Records of the calls a run makes *)

Call(op, ok, status, data, r) ==
    [op |-> op, ok |-> ok, status |-> status, data |-> data,
     path |-> r.path, actual |-> r.actual, expected |-> r.expected]

NoCheck == [path |-> <<>>, actual |-> "", expected |-> ""]

-----------------------------------------------------------------------------
(* The driver, run after run *)

Resting == {"idle", "done", "aborted"}

Init ==
    /\ fs = EmptyDir
    /\ pc = "idle"
    /\ last = "none"
    /\ log = <<>>
    /\ out = <<>>
    /\ fs0 = fs
    /\ tar = <<>>
    /\ res = CheckOk

\* main, lines 169-176: the first check_files and the branch on it.
StartRun ==
    /\ pc \in Resting
    /\ LET r == check_files(fs)
       IN  /\ log' = << Call("check_files", r.ok, 0, "", r) >>
           /\ out' = IF gate_next(r) = "emit"
                     THEN << "Using existing extracted files" >>
                     ELSE << "Download archive" >>
           /\ pc' = gate_next(r)
    /\ last' = IF pc = "idle" THEN "none" ELSE pc
    /\ fs0' = fs
    /\ UNCHANGED <<fs, tar, res>>

\* download: File::create fails; nothing was written.
DownloadCreateFails ==
    /\ pc = "download"
    /\ log' = Append(log, Call("download", FALSE, 0, "", NoCheck))
    /\ pc' = "aborted"
    /\ UNCHANGED <<fs, last, out, fs0, tar, res>>

\* download: the file is created or truncated, then perform fails.
DownloadPerformFails ==
    /\ pc = "download"
    /\ fs' = [fs EXCEPT ![ARCHIVE] = "truncated"]
    /\ log' = Append(log, Call("download", FALSE, 0, "truncated", NoCheck))
    /\ pc' = "aborted"
    /\ UNCHANGED <<last, out, fs0, tar, res>>

\* download: the transfer completes with some status; the body is in the file.
DownloadResponse ==
    /\ pc = "download"
    /\ \E response_code \in Statuses :
       \E body \in (IF response_code = 200 THEN Bodies200 ELSE {"errorpage"}) :
          /\ fs' = [fs EXCEPT ![ARCHIVE] = body]
          /\ log' = Append(log, Call("download", response_ok(response_code),
                                     response_code, body, NoCheck))
          /\ pc' = IF response_ok(response_code) THEN "extract" ELSE "aborted"
    /\ UNCHANGED <<last, out, fs0, tar, res>>

\* extract: the file cannot be opened, or is no compressed tar stream.
ExtractInvalid ==
    /\ pc = "extract"
    /\ fs[ARCHIVE] \notin ArchiveIds
    /\ log' = Append(log, Call("extract", FALSE, 0, fs[ARCHIVE], NoCheck))
    /\ pc' = "aborted"
    /\ UNCHANGED <<fs, last, out, fs0, tar, res>>

\* extract: reading or unpacking entry n + 1 fails; the entries before it are done.
ExtractFails ==
    /\ pc = "extract"
    /\ fs[ARCHIVE] \in ArchiveIds
    /\ \E n \in 0..(Len(ArchiveEntries(fs[ARCHIVE])) - 1) :
          fs' = extract_upto(ArchiveEntries(fs[ARCHIVE]), fs, n).dir
    /\ log' = Append(log, Call("extract", FALSE, 0, fs[ARCHIVE], NoCheck))
    /\ pc' = "aborted"
    /\ UNCHANGED <<last, out, fs0, tar, res>>

\* extract runs to its end.
ExtractOk ==
    /\ pc = "extract"
    /\ fs[ARCHIVE] \in ArchiveIds
    /\ fs' = extract(ArchiveEntries(fs[ARCHIVE]), fs).dir
    /\ log' = Append(log, Call("extract", TRUE, 0, fs[ARCHIVE], NoCheck))
    /\ pc' = "remove"
    /\ UNCHANGED <<last, out, fs0, tar, res>>

\* main, line 179: remove_file(&archive_path)
RemoveArchive ==
    /\ pc = "remove"
    /\ fs' = remove_file(fs, ARCHIVE)
    /\ log' = Append(log, Call("remove_file", TRUE, 0, "", [NoCheck EXCEPT !.path = ARCHIVE]))
    /\ pc' = "recheck"
    /\ UNCHANGED <<last, out, fs0, tar, res>>

\* main, line 179: remove_file fails and expect panics.
RemoveArchiveFails ==
    /\ pc = "remove"
    /\ log' = Append(log, Call("remove_file", FALSE, 0, "", [NoCheck EXCEPT !.path = ARCHIVE]))
    /\ pc' = "aborted"
    /\ UNCHANGED <<fs, last, out, fs0, tar, res>>

\* main, lines 181-188: the second check_files; panic on Err.
Recheck ==
    /\ pc = "recheck"
    /\ LET r == check_files(fs)
       IN  /\ log' = Append(log, Call("check_files", r.ok, 0, "", r))
           /\ pc' = recheck_next(r)
    /\ UNCHANGED <<fs, last, out, fs0, tar, res>>

\* main, lines 192-202: the search path and the three libraries.
Emit ==
    /\ pc = "emit"
    /\ out' = out \o directives
    /\ pc' = "done"
    /\ UNCHANGED <<fs, last, log, fs0, tar, res>>

\* Between two runs, something else changes the cache: a library file is
\* replaced or deleted, or another file is put there or taken away.
Tamper ==
    /\ pc \in Resting
    /\ \E p \in TamperPaths :
       \E c \in (IF p = OtherFile THEN {"alt"} ELSE Contents) \cup {Absent} :
          /\ c # fs[p]
          /\ fs' = [fs EXCEPT ![p] = c]
          /\ fs0' = fs'
    /\ pc' = "idle"
    /\ last' = "none"
    /\ log' = <<>>
    /\ out' = <<>>
    /\ UNCHANGED <<tar, res>>

Next ==
    \/ StartRun
    \/ DownloadCreateFails
    \/ DownloadPerformFails
    \/ DownloadResponse
    \/ ExtractInvalid
    \/ ExtractFails
    \/ ExtractOk
    \/ RemoveArchive
    \/ RemoveArchiveFails
    \/ Recheck
    \/ Emit
    \/ Tamper

Spec == Init /\ [][Next]_vars

-----------------------------------------------------------------------------
(* check_files and extract on their own, over every input within the bounds *)

\* Every cache directory over the library files.
Dirs ==
    { d \in [FsPaths -> Contents \cup {Absent}] :
        \A p \in FsPaths : (\A i \in 1..Len(FILES) : p # FILES[i].file) => d[p] = Absent }

InitVerify ==
    /\ fs \in Dirs
    /\ pc = "call"
    /\ last = "none"
    /\ log = <<>>
    /\ out = <<>>
    /\ fs0 = fs
    /\ tar = <<>>
    /\ res = CheckOk

VerifyCall ==
    /\ pc = "call"
    /\ res' = check_files(fs)
    /\ pc' = "returned"
    /\ UNCHANGED <<fs, last, log, out, fs0, tar>>

NextVerify == VerifyCall

SpecVerify == InitVerify /\ [][NextVerify]_vars

\* Every archive of at most MaxEntries entries.
Entries == [path : EntryPaths, data : {"core", "alt"}]

Tars == UNION { [1..n -> Entries] : n \in 0..MaxEntries }

InitExtract ==
    /\ tar \in Tars
    /\ fs = EmptyDir
    /\ pc = "call"
    /\ last = "none"
    /\ log = <<>>
    /\ out = <<>>
    /\ fs0 = fs
    /\ res = [dir |-> EmptyDir, unpacked |-> <<>>]

ExtractCall ==
    /\ pc = "call"
    /\ res' = extract(tar, fs)
    /\ fs' = res'.dir
    /\ pc' = "returned"
    /\ UNCHANGED <<last, log, out, fs0, tar>>

NextExtract == ExtractCall

SpecExtract == InitExtract /\ [][NextExtract]_vars

-----------------------------------------------------------------------------
(* Properties *)

MemberPaths == { FILES[i].file : i \in 1..Len(FILES) }

\* Member i of FILES is in the directory with the checksum FILES gives for it.
Valid(dir, i) == dir[FILES[i].file] # Absent /\ calc_md5(dir[FILES[i].file]) = FILES[i].md5

AllValid(dir) == \A i \in 1..Len(FILES) : Valid(dir, i)

\* Some member path is a suffix of p, component by component.
HasMemberSuffix(p) ==
    \E m \in MemberPaths : \E k \in 0..Len(p) : SubSeq(p, k + 1, Len(p)) = m

Present(dir) == { p \in FsPaths : dir[p] # Absent }

Ops(op) == { k \in 1..Len(log) : log[k].op = op }

DirectiveLines == { "cargo:rustc-link-search=$OUT_DIR/lib",
                    "cargo:rustc-link-lib=static=mkl_intel_lp64",
                    "cargo:rustc-link-lib=static=mkl_sequential",
                    "cargo:rustc-link-lib=static=mkl_core" }

EmittedDirectives == { k \in 1..Len(out) : out[k] \in DirectiveLines }

\* C1: a run that finds every member of FILES in the cache with its expected
\* checksum calls check_files once and nothing else (no download, no extract,
\* no remove_file), leaves the cache as it found it, and goes on to print the
\* linker directives.
C1_GateShortCircuits ==
    (pc # "idle" /\ AllValid(fs0)) =>
        /\ pc \in {"emit", "done"}
        /\ Len(log) = 1
        /\ log[1].op = "check_files" /\ log[1].ok
        /\ Ops("download") = {} /\ Ops("extract") = {} /\ Ops("remove_file") = {}
        /\ fs = fs0
        /\ pc = "done" =>
             out = << "Using existing extracted files",
                      "cargo:rustc-link-search=$OUT_DIR/lib",
                      "cargo:rustc-link-lib=static=mkl_intel_lp64",
                      "cargo:rustc-link-lib=static=mkl_sequential",
                      "cargo:rustc-link-lib=static=mkl_core" >>

\* A second run right after a run that ended verified, the cache untouched in
\* between, has ended without fetching.
C1_Witness ==
    /\ pc = "done" /\ last = "done"
    /\ AllValid(fs0)
    /\ Len(log) = 1

\* C2: whenever a run has printed a linker directive, a check_files call of
\* that same run returned Ok, it was the run's last call, and every member of
\* FILES is in the cache with its expected checksum; an aborted run has
\* printed no directive.
C2_DirectivesOnlyAfterPass ==
    /\ EmittedDirectives # {} =>
          /\ pc = "done"
          /\ log[Len(log)].op = "check_files" /\ log[Len(log)].ok
          /\ AllValid(fs)
    /\ pc = "aborted" => EmittedDirectives = {}
    /\ pc \in {"download", "extract", "remove", "recheck"} => EmittedDirectives = {}

\* A run that had to fetch, after a run that aborted, has printed the directives.
C2_Witness ==
    /\ pc = "done" /\ last = "aborted"
    /\ Len(log) = 5
    /\ EmittedDirectives # {}

\* C3: check_files returns Ok exactly when every member exists with its
\* expected checksum, and otherwise Err for the first member, in the order of
\* FILES, that is missing or has another checksum.
C3_CheckFilesIffAllValid ==
    pc = "returned" =>
        /\ res.ok <=> AllValid(fs)
        /\ ~res.ok =>
             \E i \in 1..Len(FILES) :
                /\ ~Valid(fs, i)
                /\ \A j \in 1..(i - 1) : Valid(fs, j)
                /\ res.path = FILES[i].file
                /\ res.expected = FILES[i].md5

\* check_files reported the second member while the third is bad as well.
C3_Witness ==
    /\ pc = "returned"
    /\ ~res.ok
    /\ res.path = FILES[2].file
    /\ ~Valid(fs, 3)

\* C4 as stated: after a fetch that ended with status 404 the run has aborted
\* without calling extract and the cache is as the run found it.
C4_CacheUnchangedAfter404 ==
    \A k \in Ops("download") :
        log[k].status = 404 =>
            /\ pc = "aborted"
            /\ Ops("extract") = {}
            /\ fs = fs0

\* C4 amended: after a fetch that ended with a status other than 200 the run
\* has aborted without calling extract, and every file of the cache other
\* than the archive file is as the run found it; the archive file exists and
\* holds the body of the response.
C4_OnlyArchiveTouchedAfterNon200 ==
    \A k \in Ops("download") :
        (log[k].status # 0 /\ log[k].status # 200) =>
            /\ pc = "aborted"
            /\ k = Len(log)
            /\ Ops("extract") = {}
            /\ \A p \in FsPaths \ {ARCHIVE} : fs[p] = fs0[p]
            /\ fs[ARCHIVE] # Absent
            /\ fs[ARCHIVE] = log[k].data

\* A 404 in a cache that held a library file and no archive file.
C4_Witness ==
    /\ pc = "aborted"
    /\ Len(log) = 2 /\ log[2].op = "download" /\ log[2].status = 404
    /\ fs0[ARCHIVE] = Absent
    /\ fs0[FILES[3].file] # Absent

\* C5 as stated: after extract into an empty directory every file there is
\* at a path listed in FILES.
C5_OnlyListedPaths ==
    pc = "returned" => Present(fs) \subseteq MemberPaths

\* C5 amended: after extract into an empty directory every file there is at
\* the path of an archive entry whose path ends with a path listed in FILES
\* (the path itself may carry a directory prefix); an entry is unpacked if and
\* only if its path ends with a path listed in FILES, and no other entry is
\* written.
C5_OnlySuffixMatchesUnpacked ==
    pc = "returned" =>
        /\ \A p \in Present(fs) :
              HasMemberSuffix(p) /\ \E n \in 1..Len(tar) : tar[n].path = p
        /\ \A n \in 1..Len(tar) :
              (\E k \in 1..Len(res.unpacked) : res.unpacked[k] = n)
                  <=> HasMemberSuffix(tar[n].path)
        /\ \A n \in 1..Len(tar) :
              ~HasMemberSuffix(tar[n].path) => fs[tar[n].path] = Absent
        /\ \A n \in 1..Len(tar) :
              HasMemberSuffix(tar[n].path) => fs[tar[n].path] # Absent

\* An archive with a listed member, a prefixed copy and a file of the same
\* name elsewhere: the first two are written, the third is not.
C5_Witness ==
    /\ pc = "returned"
    /\ fs[<<"pkg", "lib", "libmkl_core.a">>] # Absent
    /\ fs[FILES[1].file] # Absent
    /\ \E n \in 1..Len(tar) : tar[n].path = <<"include", "libmkl_core.a">>
    /\ fs[<<"include", "libmkl_core.a">>] = Absent

\* The calls of a run that fetched and verified, in order.
FetchedInOrder ==
    /\ Len(log) = 5
    /\ log[1].op = "check_files" /\ ~log[1].ok
    /\ log[1].path = FILES[1].file /\ log[1].actual = "<unknown>"
    /\ log[2].op = "download" /\ log[2].status = 200
    /\ log[3].op = "extract" /\ log[3].ok
    /\ log[4].op = "remove_file" /\ log[4].ok /\ log[4].path = ARCHIVE
    /\ log[5].op = "check_files" /\ log[5].ok
    /\ fs[ARCHIVE] = Absent
    /\ out = << "Download archive",
                "cargo:rustc-link-search=$OUT_DIR/lib",
                "cargo:rustc-link-lib=static=mkl_intel_lp64",
                "cargo:rustc-link-lib=static=mkl_sequential",
                "cargo:rustc-link-lib=static=mkl_core" >>

\* C6 as stated: a run that started with an empty cache and ended verified
\* made its calls in the stated order, printed the four directives in the
\* stated order, and left exactly the three library files in the cache.
C6_ExactlyThreeFiles ==
    (pc = "done" /\ fs0 = EmptyDir) =>
        /\ FetchedInOrder
        /\ Present(fs) = MemberPaths

\* C6 amended: a run that started with an empty cache and ended verified made
\* its calls in the stated order and printed the four directives in the stated
\* order; the three library files are in the cache with their expected
\* checksums, and any other file there is at a path that ends with a path
\* listed in FILES.
C6_EndToEnd ==
    (pc = "done" /\ fs0 = EmptyDir) =>
        /\ FetchedInOrder
        /\ AllValid(fs)
        /\ MemberPaths \subseteq Present(fs)
        /\ \A p \in Present(fs) : HasMemberSuffix(p)

\* The run from an empty cache that leaves exactly the three library files.
C6_Witness ==
    /\ pc = "done" /\ fs0 = EmptyDir
    /\ Present(fs) = MemberPaths
    /\ Len(out) = 5

\* C7: when check_files fails on a member whose file exists, the Err carries
\* that member's path, the checksum computed from the file, which is not the
\* expected one, and the expected checksum; when it fails on a member whose
\* file does not exist, the Err carries "<unknown>", which is no checksum, and
\* calc_md5 was not called on that file.
C7_FailPayload ==
    (pc = "returned" /\ ~res.ok) =>
        /\ \E i \in 1..Len(FILES) : res.path = FILES[i].file /\ res.expected = FILES[i].md5
        /\ fs[res.path] # Absent =>
              /\ res.actual = calc_md5(fs[res.path])
              /\ res.actual # res.expected
              /\ res.actual # "<unknown>"
              /\ res.hashed[Len(res.hashed)] = res.path
        /\ fs[res.path] = Absent =>
              /\ res.actual = "<unknown>"
              /\ \A k \in 1..Len(res.hashed) : res.hashed[k] # res.path
              /\ \A c \in Contents : calc_md5(c) # "<unknown>"

\* check_files failed on the third member, whose file holds altered content.
C7_Witness ==
    /\ pc = "returned"
    /\ ~res.ok
    /\ res.path = FILES[3].file
    /\ fs[FILES[3].file] = "alt"
    /\ res.actual = "d41d8cd98f00b204e9800998ecf8427e"

\* C8: a run calls download at most once; the call succeeds only with status
\* 200, and after any other outcome it is the run's last call, the run has
\* aborted and has printed no directive.
C8_SingleStatusGatedFetch ==
    /\ Cardinality(Ops("download")) <= 1
    /\ \A k \in Ops("download") :
          /\ log[k].ok <=> log[k].status = 200
          /\ log[k].status # 200 =>
                /\ k = Len(log)
                /\ pc = "aborted"
                /\ EmittedDirectives = {}
          /\ k < Len(log) => log[k].status = 200

\* A redirect that was not followed to a 200 ends the run.
C8_Witness ==
    /\ pc = "aborted"
    /\ Len(log) = 2 /\ log[2].op = "download" /\ log[2].status = 302

\* What C9 asks of one step.
C9_Step ==
    /\ pc' # "idle" =>
          \A p \in FsPaths :
             (fs[p] # Absent /\ fs'[p] = Absent) =>
                 /\ p = ARCHIVE
                 /\ pc = "remove"
                 /\ log[Len(log)].op = "extract" /\ log[Len(log)].ok
    /\ (pc' = "done" /\ \E k \in 1..Len(log') : log'[k].op = "download") =>
          fs'[ARCHIVE] = Absent
    /\ \A k \in 1..Len(log') :
          (log'[k].op = "remove_file" /\ ~log'[k].ok) =>
              (k = Len(log') /\ pc' = "aborted")

\* C9: a step of a run removes no file but the archive file, and that only
\* right after extract has run to its end in the same run; a run that fetched
\* and ended verified leaves no archive file; a failed remove_file is the last
\* call of a run that has aborted.
C9_DeletionFrame == [][C9_Step]_vars

\* A run that found a leftover archive file and a file of someone else's,
\* fetched, and ended verified.
C9_Witness ==
    /\ pc = "done"
    /\ Len(log) = 5
    /\ fs0[ARCHIVE] # Absent
    /\ fs[ARCHIVE] = Absent
    /\ fs[OtherFile] # Absent

\* C10: extract is called only right after a download of the same run that
\* ended with status 200, and on the archive file that download wrote.
C10_ExtractOnlyFreshArchive ==
    /\ pc = "extract" =>
          /\ Len(log) = 2
          /\ log[2].op = "download" /\ log[2].status = 200
          /\ log[2].data = fs[ARCHIVE]
    /\ \A k \in Ops("extract") :
          /\ k > 1
          /\ log[k - 1].op = "download" /\ log[k - 1].status = 200
          /\ log[k - 1].data = log[k].data

\* extract has run in a cache where an earlier run left another archive file.
C10_Witness ==
    /\ Ops("extract") # {}
    /\ fs0[ARCHIVE] # Absent
    /\ fs0[ARCHIVE] # log[3].data
    /\ last = "aborted"

=============================================================================
